---- MODULE Spec2Model ----
(***************************************************************************)
(* knfo: list the Windows "known folders" and their paths.                 *)
(*                                                                         *)
(* A model of src/src/main.rs: the flag translator                         *)
(* (read_args_as_kf_flags), the COM session guard (ComInit), the owners    *)
(* of service-allocated memory (CoStr, KnownFolderIds,                     *)
(* KnownFolderDefinition), the query get_named_paths, and run/main.        *)
(*                                                                         *)
(* Strings are sequences of one-character strings.  A KNOWN_FOLDER_FLAG    *)
(* (a 32-bit value) is the set of the positions of its one bits, so that   *)
(* `|` is \cup, `contains` is \subseteq and `== 0` is `= {}`.              *)
(***************************************************************************)
EXTENDS Integers, Sequences, FiniteSets, TLC

(***************************************************************************)
(* Bounds of the model.                                                    *)
(***************************************************************************)
\* Longest command line (number of arguments after the program name)
\* explored by SpecFlags.
MaxArgs == 2

\* Largest number of identifiers GetFolderIds returns.
MaxIds == 2

(***************************************************************************)
(* The KNOWN_FOLDER_FLAG values the program imports (the Windows SDK's     *)
(* values, as sets of bit positions: 0x00008000 is {15}).                  *)
(***************************************************************************)
KF_FLAG_DEFAULT == {}

KF_FLAG_FORCE_APP_DATA_REDIRECTION == {19}

KF_FLAG_RETURN_FILTER_REDIRECTION_TARGET == {18}

KF_FLAG_FORCE_PACKAGE_REDIRECTION == {17}

KF_FLAG_NO_PACKAGE_REDIRECTION == {16}

KF_FLAG_FORCE_APPCONTAINER_REDIRECTION == {17}

KF_FLAG_CREATE == {15}

KF_FLAG_DONT_VERIFY == {14}

KF_FLAG_DONT_UNEXPAND == {13}

KF_FLAG_NO_ALIAS == {12}

KF_FLAG_INIT == {11}

KF_FLAG_DEFAULT_PATH == {10}

KF_FLAG_NOT_PARENT_RELATIVE == {9}

KF_FLAG_SIMPLE_IDLIST == {8}

KF_FLAG_ALIAS_ONLY == {31}

\* const PREFIX: &str = "KF_FLAG_";
PREFIX == <<"K", "F", "_", "F", "L", "A", "G", "_">>

\* NAMED_KF_FLAGS: the pairs (stringify!(ident), ident), in source order.
NAMED_KF_FLAGS ==
    <<  [name |-> PREFIX \o <<"D", "E", "F", "A", "U", "L", "T">>,
         flag |-> KF_FLAG_DEFAULT],
        [name |-> PREFIX \o <<"F", "O", "R", "C", "E", "_", "A", "P", "P", "_", "D", "A", "T", "A", "_", "R", "E", "D", "I", "R", "E", "C", "T", "I", "O", "N">>,
         flag |-> KF_FLAG_FORCE_APP_DATA_REDIRECTION],
        [name |-> PREFIX \o <<"R", "E", "T", "U", "R", "N", "_", "F", "I", "L", "T", "E", "R", "_", "R", "E", "D", "I", "R", "E", "C", "T", "I", "O", "N", "_", "T", "A", "R", "G", "E", "T">>,
         flag |-> KF_FLAG_RETURN_FILTER_REDIRECTION_TARGET],
        [name |-> PREFIX \o <<"F", "O", "R", "C", "E", "_", "P", "A", "C", "K", "A", "G", "E", "_", "R", "E", "D", "I", "R", "E", "C", "T", "I", "O", "N">>,
         flag |-> KF_FLAG_FORCE_PACKAGE_REDIRECTION],
        [name |-> PREFIX \o <<"N", "O", "_", "P", "A", "C", "K", "A", "G", "E", "_", "R", "E", "D", "I", "R", "E", "C", "T", "I", "O", "N">>,
         flag |-> KF_FLAG_NO_PACKAGE_REDIRECTION],
        [name |-> PREFIX \o <<"F", "O", "R", "C", "E", "_", "A", "P", "P", "C", "O", "N", "T", "A", "I", "N", "E", "R", "_", "R", "E", "D", "I", "R", "E", "C", "T", "I", "O", "N">>,
         flag |-> KF_FLAG_FORCE_APPCONTAINER_REDIRECTION],
        [name |-> PREFIX \o <<"C", "R", "E", "A", "T", "E">>,
         flag |-> KF_FLAG_CREATE],
        [name |-> PREFIX \o <<"D", "O", "N", "T", "_", "V", "E", "R", "I", "F", "Y">>,
         flag |-> KF_FLAG_DONT_VERIFY],
        [name |-> PREFIX \o <<"D", "O", "N", "T", "_", "U", "N", "E", "X", "P", "A", "N", "D">>,
         flag |-> KF_FLAG_DONT_UNEXPAND],
        [name |-> PREFIX \o <<"N", "O", "_", "A", "L", "I", "A", "S">>,
         flag |-> KF_FLAG_NO_ALIAS],
        [name |-> PREFIX \o <<"I", "N", "I", "T">>,
         flag |-> KF_FLAG_INIT],
        [name |-> PREFIX \o <<"D", "E", "F", "A", "U", "L", "T", "_", "P", "A", "T", "H">>,
         flag |-> KF_FLAG_DEFAULT_PATH],
        [name |-> PREFIX \o <<"N", "O", "T", "_", "P", "A", "R", "E", "N", "T", "_", "R", "E", "L", "A", "T", "I", "V", "E">>,
         flag |-> KF_FLAG_NOT_PARENT_RELATIVE],
        [name |-> PREFIX \o <<"S", "I", "M", "P", "L", "E", "_", "I", "D", "L", "I", "S", "T">>,
         flag |-> KF_FLAG_SIMPLE_IDLIST],
        [name |-> PREFIX \o <<"A", "L", "I", "A", "S", "_", "O", "N", "L", "Y">>,
         flag |-> KF_FLAG_ALIAS_ONLY] >>

\* A banned-flag list that forgets KF_FLAG_INIT.
BANNED_KF_FLAGS_OnlyCreate == {KF_FLAG_CREATE}

\* const BANNED_KF_FLAGS = &[KF_FLAG_CREATE, KF_FLAG_INIT]
BANNED_KF_FLAGS == {KF_FLAG_CREATE, KF_FLAG_INIT}

(***************************************************************************)
(* str operations used by the flag translator.                             *)
(***************************************************************************)
LowerChars ==
    <<"a", "b", "c", "d", "e", "f", "g", "h", "i", "j", "k", "l", "m",
      "n", "o", "p", "q", "r", "s", "t", "u", "v", "w", "x", "y", "z">>

UpperChars ==
    <<"A", "B", "C", "D", "E", "F", "G", "H", "I", "J", "K", "L", "M",
      "N", "O", "P", "Q", "R", "S", "T", "U", "V", "W", "X", "Y", "Z">>

\* char::to_uppercase on the characters of the model's alphabet (ASCII
\* letters, '_' and '-'): a lowercase letter maps to its capital, every
\* other character to itself.
CharToUpper(c) ==
    IF \E i \in 1..Len(LowerChars) : LowerChars[i] = c
    THEN UpperChars[CHOOSE i \in 1..Len(LowerChars) : LowerChars[i] = c]
    ELSE c

\* char::to_lowercase, used only to spell the inputs.
CharToLower(c) ==
    IF \E i \in 1..Len(UpperChars) : UpperChars[i] = c
    THEN LowerChars[CHOOSE i \in 1..Len(UpperChars) : UpperChars[i] = c]
    ELSE c

\* str::to_uppercase
to_uppercase(s) == [i \in 1..Len(s) |-> CharToUpper(s[i])]

\* str::starts_with
starts_with(s, p) == Len(s) >= Len(p) /\ SubSeq(s, 1, Len(p)) = p

\* A normalisation that always prepends the prefix.
normalize_flag_name_AlwaysPrefix(flag_arg) == PREFIX \o to_uppercase(flag_arg)

\* A normalisation that forgets to change the case.
normalize_flag_name_NoUpcase(flag_arg) ==
    IF starts_with(flag_arg, PREFIX) THEN flag_arg ELSE PREFIX \o flag_arg

\* fn normalize_flag_name(flag_arg: &str) -> String
normalize_flag_name(flag_arg) ==
    LET upcased == to_uppercase(flag_arg)
    IN  IF starts_with(upcased, PREFIX) THEN upcased ELSE PREFIX \o upcased

\* HashMap::from_iter(NAMED_KF_FLAGS): the keys of the table.
TableKeys == {NAMED_KF_FLAGS[i].name : i \in 1..Len(NAMED_KF_FLAGS)}

\* table.get(flag_name) for a key of the table: a later pair of the same
\* name replaces an earlier one.
TableGet(flag_name) ==
    LET hits == {i \in 1..Len(NAMED_KF_FLAGS) : NAMED_KF_FLAGS[i].name = flag_name}
        last == CHOOSE i \in hits : \A j \in hits : j <= i
    IN  NAMED_KF_FLAGS[last].flag

\* KNOWN_FOLDER_FLAG::contains: self.0 & other.0 == other.0
Contains(flags, other) == other \subseteq flags

(***************************************************************************)
(* The command lines explored.                                             *)
(***************************************************************************)
\* str::to_lowercase, used only to spell the inputs.
to_lowercase(s) == [i \in 1..Len(s) |-> CharToLower(s[i])]

\* A spelling in mixed case: every second character in lower case.
MixedCase(s) ==
    [i \in 1..Len(s) |-> IF i % 2 = 0 THEN CharToLower(s[i]) ELSE CharToUpper(s[i])]

\* A table name without its KF_FLAG_ prefix.
StripPrefix(n) == SubSeq(n, Len(PREFIX) + 1, Len(n))

\* The table names spelled out in every form below (the two banned names
\* and three accepted ones).
VariantNames ==
    {n \in TableKeys :
        TableGet(n) \in {KF_FLAG_CREATE, KF_FLAG_INIT, KF_FLAG_DEFAULT,
                         KF_FLAG_DONT_VERIFY, KF_FLAG_NO_ALIAS}}

\* The forms of a name: with and without the prefix, in upper, lower and
\* mixed case.
Spellings(n) ==
    {n, to_lowercase(n), MixedCase(n),
     StripPrefix(n), to_lowercase(StripPrefix(n)), MixedCase(StripPrefix(n))}

\* Tokens beginning with '-'.
HyphenTokens ==
    {<<"-">>,
     <<"-", "c", "r", "e", "a", "t", "e">>,
     <<"-", "N", "O", "_", "A", "L", "I", "A", "S">>}

\* Tokens that name no flag: a word, the empty string, the bare prefix,
\* and the prefix without its last character.
UnknownTokens ==
    {<<"b", "o", "g", "u", "s">>,
     <<>>,
     PREFIX,
     <<"k", "f", "_", "f", "l", "a", "g">>}

Tokens ==
    TableKeys \cup UNION {Spellings(n) : n \in VariantNames}
        \cup HyphenTokens \cup UnknownTokens

\* The command lines of at most n tokens.
ArgLists(n) == UNION {[1..k -> Tokens] : k \in 0..n}

\* The command lines the whole program is run on: no argument, two
\* accepted flags, and each kind of rejected token, first or after an
\* accepted one.
MainArgs ==
    {<<>>,
     << PREFIX \o <<"N", "O", "_", "A", "L", "I", "A", "S">>,
        <<"D", "o", "n", "t", "_", "V", "e", "r", "i", "f", "y">> >>,
     << <<"-", "c", "r", "e", "a", "t", "e">> >>,
     << <<"b", "o", "g", "u", "s">> >>,
     << <<"C", "r", "e", "a", "t", "e">> >>,
     << <<"n", "o", "_", "a", "l", "i", "a", "s">>,
        <<"k", "f", "_", "f", "l", "a", "g", "_", "i", "n", "i", "t">> >>}

(***************************************************************************)
(* What the service hands back: display names, paths and errors.           *)
(***************************************************************************)
\* The bytes of the model's characters, in increasing order ('-' is 45,
\* 'A'..'Z' are 65..90, '_' is 95, 'a'..'z' are 97..122).
ByteOrder == <<"-">> \o UpperChars \o <<"_">> \o LowerChars

\* The display names a folder definition may carry.
FolderNames == {<<"D">>, <<"Z", "D">>, <<"a">>}

\* The paths GetPath may return.
FolderPaths == {<<"C", "_", "x">>}

\* The errors a service call may fail with.
Errors == {"E_FAIL", "E_ACCESSDENIED"}

\* The error a FromUtf16Error converts to.
Utf16Error == "ERROR_NO_UNICODE_TRANSLATION"

\* WindowsError::message
Message(e) ==
    IF e = "E_FAIL" THEN <<"f", "a", "i", "l">>
    ELSE IF e = "E_ACCESSDENIED" THEN <<"d", "e", "n", "i", "e", "d">>
    ELSE <<"u", "t", "f">>

\* The string fields of a KNOWNFOLDER_DEFINITION, in the order
\* KnownFolderDefinition::drop frees them.
DefinitionFields ==
    <<"pszName", "pszDescription", "pszRelativePath", "pszParsingName",
      "pszTooltip", "pszLocalizedName", "pszIcon", "pszSecurity">>

(***************************************************************************)
(* The state.                                                              *)
(***************************************************************************)
VARIABLES
    args,          \* std::env::args().skip(1): the command line
    argi,          \* read_args_as_kf_flags: the next argument's position
    flags,         \* read_args_as_kf_flags: `flags`
    parsed,        \* the Result read_args_as_kf_flags returned
    pc,            \* the program's position
    err,           \* the error a `?` is returning with, or NoErr
    held,          \* what each owner holds (0: the owner does not exist)
    count,         \* KnownFolderIds.count
    idx,           \* get_named_paths: identifiers taken from the slice
    name,          \* get_named_paths: `name`
    try_path,      \* get_named_paths: `try_path`
    named_paths,   \* get_named_paths / run: `named_paths`
    comCount,      \* COM: this thread's initialisation count
    live,          \* the service's resources handed out and not released
    nextId,        \* the service's next allocation number
    log,           \* what the program did with the service, in order
    stdout,        \* lines printed
    stderr,        \* messages on the error stream
    exitCode       \* the process's exit code, NotExited while it runs

vars ==
    <<args, argi, flags, parsed, pc, err, held, count, idx, name, try_path,
      named_paths, comCount, live, nextId, log, stdout, stderr, exitCode>>

\* The variables of read_args_as_kf_flags.
argVars == <<args, argi, flags, parsed>>

\* The variables main uses after flag translation.
runVars ==
    <<err, held, count, idx, name, try_path, named_paths, comCount, live,
      nextId, log, stdout>>

\* The locals of get_named_paths's loop.
loopVars == <<count, idx, name, try_path, named_paths>>

\* The process's streams and exit code.
outVars == <<stdout, stderr, exitCode>>

NotExited == 0 - 1

NoErr == "none"

\* An empty String.
NoName == <<>>

\* No Result<String, WindowsError> yet.
NoPath == [ok |-> FALSE, path |-> <<>>, err |-> NoErr]

OkPath(p) == [ok |-> TRUE, path |-> p, err |-> NoErr]

ErrPath(e) == [ok |-> FALSE, path |-> <<>>, err |-> e]

\* No Result yet.
NoResult == [ok |-> FALSE, flags |-> {}, kind |-> "none", token |-> <<>>]

\* Ok(flags)
OkFlags(f) == [ok |-> TRUE, flags |-> f, kind |-> "none", token |-> <<>>]

\* Err(FlagParseError::kind(token))
ErrFlags(kind, token) == [ok |-> FALSE, flags |-> {}, kind |-> kind, token |-> token]

\* No owner exists.
NoOwners ==
    [com |-> 0, kf_manager |-> 0, pkfid |-> 0, folder |-> 0, fields |-> 0, pwstr |-> 0]

InitWith(argLists) ==
    /\ args \in argLists
    /\ argi = 1
    /\ flags = {}
    /\ parsed = NoResult
    /\ pc = "read_args"
    /\ err = NoErr
    /\ held = NoOwners
    /\ count = 0
    /\ idx = 0
    /\ name = NoName
    /\ try_path = NoPath
    /\ named_paths = <<>>
    /\ comCount = 0
    /\ live = {}
    /\ nextId = 1
    /\ log = <<>>
    /\ stdout = <<>>
    /\ stderr = <<>>
    /\ exitCode = NotExited

Init == InitWith(MainArgs)

InitFlags == InitWith(ArgLists(MaxArgs))

\* A failed assert!: the thread panics and the process exits with 101.
Panic(msg) ==
    /\ pc' = "exited"
    /\ exitCode' = 101
    /\ stderr' = Append(stderr, <<"panic", msg>>)

(***************************************************************************)
(* read_args_as_kf_flags                                                   *)
(***************************************************************************)
\* let mut flags = KF_FLAG_DEFAULT; assert!(flags.0 == 0, ...)
ReadArgsBegin ==
    /\ pc = "read_args"
    /\ flags' = KF_FLAG_DEFAULT
    /\ IF flags' = {}
       THEN pc' = "args_loop" /\ UNCHANGED <<exitCode, stderr>>
       ELSE Panic("Bug: Default flags are somehow nonzero!")
    /\ UNCHANGED <<args, argi, parsed>>
    /\ UNCHANGED runVars

\* An iteration that takes the hyphen for part of the name.
ArgResult_HyphenIsName(flag_arg) ==
    LET bare == IF starts_with(flag_arg, <<"-">>)
                THEN SubSeq(flag_arg, 2, Len(flag_arg))
                ELSE flag_arg
        flag_name == normalize_flag_name(bare)
    IN  IF flag_name \notin TableKeys
        THEN ErrFlags("UnrecognizedFlag", flag_name)
        ELSE IF TableGet(flag_name) \in BANNED_KF_FLAGS
        THEN ErrFlags("BannedFlag", flag_name)
        ELSE NoResult

\* The Result of one iteration of `for flag_arg in args().skip(1)` that
\* returns, or NoResult when the loop goes on.
ArgResult(flag_arg) ==
    IF starts_with(flag_arg, <<"-">>)
    THEN ErrFlags("UnrecognizedOption", flag_arg)
    ELSE LET flag_name == normalize_flag_name(flag_arg)
         IN  IF flag_name \notin TableKeys
             THEN ErrFlags("UnrecognizedFlag", flag_name)
             ELSE IF TableGet(flag_name) \in BANNED_KF_FLAGS
             THEN ErrFlags("BannedFlag", flag_name)
             ELSE NoResult

\* An iteration that assigns the flag instead of or-ing it in.
ReadArg_Overwrite ==
    /\ pc = "args_loop"
    /\ argi <= Len(args)
    /\ LET flag_arg == args[argi]
           result == ArgResult(flag_arg)
       IN  IF result = NoResult
           THEN /\ flags' = TableGet(normalize_flag_name(flag_arg))
                /\ argi' = argi + 1
                /\ UNCHANGED <<parsed, pc>>
           ELSE /\ parsed' = result
                /\ pc' = "main_flags"
                /\ UNCHANGED <<flags, argi>>
    /\ UNCHANGED <<args, exitCode, stderr>>
    /\ UNCHANGED runVars

\* An iteration that goes on to the next token after a rejected one.
ReadArg_SkipRejected ==
    /\ pc = "args_loop"
    /\ argi <= Len(args)
    /\ LET flag_arg == args[argi]
           result == ArgResult(flag_arg)
       IN  IF result = NoResult
           THEN /\ flags' = flags \cup TableGet(normalize_flag_name(flag_arg))
                /\ argi' = argi + 1
                /\ UNCHANGED <<parsed, pc>>
           ELSE IF argi < Len(args)
           THEN /\ argi' = argi + 1
                /\ UNCHANGED <<flags, parsed, pc>>
           ELSE /\ parsed' = result
                /\ pc' = "main_flags"
                /\ UNCHANGED <<flags, argi>>
    /\ UNCHANGED <<args, exitCode, stderr>>
    /\ UNCHANGED runVars

\* One iteration of the loop over the arguments.
ReadArg ==
    /\ pc = "args_loop"
    /\ argi <= Len(args)
    /\ LET flag_arg == args[argi]
           result == ArgResult(flag_arg)
       IN  IF result = NoResult
           THEN /\ flags' = flags \cup TableGet(normalize_flag_name(flag_arg))
                /\ argi' = argi + 1
                /\ UNCHANGED <<parsed, pc>>
           ELSE /\ parsed' = result
                /\ pc' = "main_flags"
                /\ UNCHANGED <<flags, argi>>
    /\ UNCHANGED <<args, exitCode, stderr>>
    /\ UNCHANGED runVars

\* After the loop: the assertion on the banned flags, then Ok(flags).
ReadArgsEnd ==
    /\ pc = "args_loop"
    /\ argi > Len(args)
    /\ IF \E banned_flag \in BANNED_KF_FLAGS : Contains(flags, banned_flag)
       THEN /\ Panic("Bug: Other flags somehow combined to form banned flag")
            /\ UNCHANGED parsed
       ELSE /\ parsed' = OkFlags(flags)
            /\ pc' = "main_flags"
            /\ UNCHANGED <<exitCode, stderr>>
    /\ UNCHANGED <<args, argi, flags>>
    /\ UNCHANGED runVars

NextFlags == ReadArgsBegin \/ ReadArg \/ ReadArgsEnd

SpecFlags == InitFlags /\ [][NextFlags]_vars

(***************************************************************************)
(* The service: resources and the record of what was done with them.       *)
(***************************************************************************)
\* A resource of the service: its kind and its allocation number.
Res(kind, id) == [kind |-> kind, id |-> id]

\* An entry of the log: what was done (ev), to which kind of thing, the
\* allocation number of the resource (0: none), the number of the entry of
\* the identifier array it was done for (0: none), whether it succeeded,
\* and the string or the error it gave.
Ev(ev, kind, id, n, ok, val) ==
    [ev |-> ev, kind |-> kind, id |-> id, n |-> n, ok |-> ok, val |-> val]

\* A call of service function fn for entry n, which returned res: "ok" or
\* an error.
Call(fn, n, res) ==
    Ev("call", fn, 0, n, res = "ok", IF res = "ok" THEN <<>> ELSE <<res>>)

\* The service handed out resource Res(kind, id).
Acquire(kind, id, n) == Ev("acquire", kind, id, n, TRUE, <<>>)

\* The program released resource Res(kind, id).
Release(kind, id, n) == Ev("release", kind, id, n, TRUE, <<>>)

\* The program read resource Res(kind, id); a decoding gave val.
Read(kind, id, n, ok, val) == Ev("read", kind, id, n, ok, val)

\* The program printed the i-th line of the table.
Printed(i, line) == Ev("print", "line", 0, i, TRUE, line)

\* The blocks GetFolderDefinition allocates for definition number id.
FieldBlocks(id) == {Res(DefinitionFields[i], id) : i \in 1..Len(DefinitionFields)}

(***************************************************************************)
(* main, before run                                                        *)
(***************************************************************************)
\* An unwrap_or_else whose closure reports the error and goes on.
MainFlags_NoExit ==
    /\ pc = "main_flags"
    /\ IF parsed.ok
       THEN UNCHANGED stderr
       ELSE stderr' = Append(stderr, <<"Error", parsed.kind, parsed.token>>)
    /\ pc' = "com_init"
    /\ UNCHANGED <<argVars, runVars, stdout, exitCode>>

\* main: let flags = read_args_as_kf_flags().unwrap_or_else(|e| {
\*     eprintln!("Error: {e}"); std::process::exit(2); });
MainFlags ==
    /\ pc = "main_flags"
    /\ IF parsed.ok
       THEN /\ pc' = "com_init"
            /\ UNCHANGED <<stderr, exitCode>>
       ELSE /\ stderr' = Append(stderr, <<"Error", parsed.kind, parsed.token>>)
            /\ exitCode' = 2
            /\ pc' = "exited"
    /\ UNCHANGED <<argVars, runVars, stdout>>

\* A guard bound to `_`: it is dropped at the end of its own statement.
ComInitNew_DroppedAtOnce ==
    /\ pc = "com_init"
    /\ \E r \in {"ok"} \cup Errors :
        IF r = "ok"
        THEN /\ nextId' = nextId + 1
             /\ log' = log \o <<Call("CoInitializeEx", 0, "ok"),
                                Acquire("session", nextId, 0),
                                Release("session", nextId, 0)>>
             /\ pc' = "create_manager"
             /\ UNCHANGED err
        ELSE /\ log' = Append(log, Call("CoInitializeEx", 0, r))
             /\ err' = r
             /\ pc' = "main_ret"
             /\ UNCHANGED nextId
    /\ UNCHANGED <<argVars, loopVars, outVars, comCount, live, held>>

\* A session open whose failure is not propagated.
ComInitNew_IgnoreFailure ==
    /\ pc = "com_init"
    /\ \E r \in {"ok"} \cup Errors :
        IF r = "ok"
        THEN /\ comCount' = comCount + 1
             /\ live' = live \cup {Res("session", nextId)}
             /\ held' = [held EXCEPT !.com = nextId]
             /\ nextId' = nextId + 1
             /\ log' = log \o <<Call("CoInitializeEx", 0, "ok"),
                                Acquire("session", nextId, 0)>>
        ELSE /\ log' = Append(log, Call("CoInitializeEx", 0, r))
             /\ UNCHANGED <<comCount, live, held, nextId>>
    /\ pc' = "create_manager"
    /\ UNCHANGED <<argVars, err, loopVars, outVars>>

\* main: let _com = ComInit::new()?  (CoInitializeEx(...).ok()?)
ComInitNew ==
    /\ pc = "com_init"
    /\ \E r \in {"ok"} \cup Errors :
        IF r = "ok"
        THEN /\ comCount' = comCount + 1
             /\ live' = live \cup {Res("session", nextId)}
             /\ held' = [held EXCEPT !.com = nextId]
             /\ nextId' = nextId + 1
             /\ log' = log \o <<Call("CoInitializeEx", 0, "ok"),
                                Acquire("session", nextId, 0)>>
             /\ pc' = "create_manager"
             /\ UNCHANGED err
        ELSE /\ log' = Append(log, Call("CoInitializeEx", 0, r))
             /\ err' = r
             /\ pc' = "main_ret"
             /\ UNCHANGED <<comCount, live, held, nextId>>
    /\ UNCHANGED argVars
    /\ UNCHANGED loopVars
    /\ UNCHANGED outVars

(***************************************************************************)
(* get_named_paths                                                         *)
(***************************************************************************)
\* let kf_manager = CoCreateInstance(&KnownFolderManager, ...)?
CreateManager ==
    /\ pc = "create_manager"
    /\ \E r \in {"ok"} \cup Errors :
        IF r = "ok"
        THEN /\ live' = live \cup {Res("manager", nextId)}
             /\ held' = [held EXCEPT !.kf_manager = nextId]
             /\ nextId' = nextId + 1
             /\ log' = log \o <<Call("CoCreateInstance", 0, "ok"),
                                Acquire("manager", nextId, 0)>>
             /\ pc' = "get_ids"
             /\ UNCHANGED err
        ELSE /\ log' = Append(log, Call("CoCreateInstance", 0, r))
             /\ err' = r
             /\ pc' = "ret_named_paths"
             /\ UNCHANGED <<live, held, nextId>>
    /\ UNCHANGED <<argVars, loopVars, comCount, outVars>>

\* An owner dropped as soon as the slice has been taken from it, before the
\* loop reads the slice.
GetFolderIds_SliceOutlivesOwner ==
    /\ pc = "get_ids"
    /\ \/ \E n \in 0..MaxIds :
            /\ held' = [held EXCEPT !.pkfid = nextId]
            /\ nextId' = nextId + 1
            /\ count' = n
            /\ idx' = 0
            /\ log' = log \o <<Call("GetFolderIds", 0, "ok"),
                               Acquire("ids", nextId, 0),
                               Release("ids", nextId, 0)>>
            /\ pc' = "loop"
            /\ UNCHANGED <<err, live>>
       \/ \E e \in Errors :
            /\ log' = Append(log, Call("GetFolderIds", 0, e))
            /\ err' = e
            /\ pc' = "drop_manager"
            /\ UNCHANGED <<live, held, nextId, count, idx>>
    /\ UNCHANGED <<argVars, name, try_path, named_paths, comCount, outVars>>

\* KnownFolderIds::new(&kf_manager)?  (GetFolderIds(&mut pkfid, &mut count)?)
GetFolderIds ==
    /\ pc = "get_ids"
    /\ \/ \E n \in 0..MaxIds :
            /\ live' = live \cup {Res("ids", nextId)}
            /\ held' = [held EXCEPT !.pkfid = nextId]
            /\ nextId' = nextId + 1
            /\ count' = n
            /\ idx' = 0
            /\ log' = log \o <<Call("GetFolderIds", 0, "ok"),
                               Acquire("ids", nextId, 0)>>
            /\ pc' = "loop"
            /\ UNCHANGED err
       \/ \E e \in Errors :
            /\ log' = Append(log, Call("GetFolderIds", 0, e))
            /\ err' = e
            /\ pc' = "drop_manager"
            /\ UNCHANGED <<live, held, nextId, count, idx>>
    /\ UNCHANGED <<argVars, name, try_path, named_paths, comCount, outVars>>

\* for id in ....as_slice() { let folder = kf_manager.GetFolder(id)?; ...
\* The iterator yields the next identifier, which GetFolder reads.
GetFolder ==
    /\ pc = "loop"
    /\ idx < count
    /\ idx' = idx + 1
    /\ \E r \in {"ok"} \cup Errors :
        IF r = "ok"
        THEN /\ live' = live \cup {Res("folder", nextId)}
             /\ held' = [held EXCEPT !.folder = nextId]
             /\ nextId' = nextId + 1
             /\ log' = log \o <<Read("ids", held.pkfid, idx', TRUE, <<>>),
                                Call("GetFolder", idx', "ok"),
                                Acquire("folder", nextId, idx')>>
             /\ pc' = "get_definition"
             /\ UNCHANGED err
        ELSE /\ log' = log \o <<Read("ids", held.pkfid, idx', TRUE, <<>>),
                                Call("GetFolder", idx', r)>>
             /\ err' = r
             /\ pc' = "drop_ids"
             /\ UNCHANGED <<live, held, nextId>>
    /\ UNCHANGED <<argVars, count, name, try_path, named_paths, comCount, outVars>>

\* KnownFolderDefinition::of(&folder)?  (GetFolderDefinition(&mut fields)?)
GetFolderDefinition ==
    /\ pc = "get_definition"
    /\ \E r \in {"ok"} \cup Errors :
        IF r = "ok"
        THEN /\ live' = live \cup FieldBlocks(nextId)
             /\ held' = [held EXCEPT !.fields = nextId]
             /\ nextId' = nextId + 1
             /\ log' = log \o <<Call("GetFolderDefinition", idx, "ok")>>
                        \o [i \in 1..Len(DefinitionFields) |->
                                Acquire(DefinitionFields[i], nextId, idx)]
             /\ pc' = "decode_name"
             /\ UNCHANGED err
        ELSE /\ log' = Append(log, Call("GetFolderDefinition", idx, r))
             /\ err' = r
             /\ pc' = "drop_folder"
             /\ UNCHANGED <<live, held, nextId>>
    /\ UNCHANGED <<argVars, loopVars, comCount, outVars>>

\* A decoding that replaces an ill-formed name by the empty string.
DecodeName_Lossy ==
    /\ pc = "decode_name"
    /\ \/ \E n \in FolderNames :
            /\ name' = n
            /\ log' = Append(log, Read("pszName", held.fields, idx, TRUE, n))
       \/ /\ name' = <<>>
          /\ log' = Append(log, Read("pszName", held.fields, idx, FALSE, <<Utf16Error>>))
    /\ pc' = "drop_definition"
    /\ UNCHANGED <<argVars, err, held, count, idx, try_path, named_paths, comCount,
                   live, nextId, outVars>>

\* .fields.pszName.to_string()?
DecodeName ==
    /\ pc = "decode_name"
    /\ \/ \E n \in FolderNames :
            /\ name' = n
            /\ log' = Append(log, Read("pszName", held.fields, idx, TRUE, n))
            /\ UNCHANGED err
       \/ /\ err' = Utf16Error
          /\ log' = Append(log, Read("pszName", held.fields, idx, FALSE, <<Utf16Error>>))
          /\ UNCHANGED name
    /\ pc' = "drop_definition"
    /\ UNCHANGED <<argVars, held, count, idx, try_path, named_paths, comCount,
                   live, nextId, outVars>>

\* A drop that frees only the name.
DropDefinition_NameOnly ==
    /\ pc = "drop_definition"
    /\ live' = live \ {Res("pszName", held.fields)}
    /\ log' = Append(log, Release("pszName", held.fields, idx))
    /\ held' = [held EXCEPT !.fields = 0]
    /\ pc' = IF err = NoErr THEN "get_path" ELSE "drop_folder"
    /\ UNCHANGED <<argVars, err, loopVars, comCount, nextId, outVars>>

\* impl Drop for KnownFolderDefinition: the temporary is dropped at the end
\* of the `let name = ...;` statement, also when a `?` in it returns.
DropDefinition ==
    /\ pc = "drop_definition"
    /\ live' = live \ FieldBlocks(held.fields)
    /\ log' = log \o [i \in 1..Len(DefinitionFields) |->
                        Release(DefinitionFields[i], held.fields, idx)]
    /\ held' = [held EXCEPT !.fields = 0]
    /\ pc' = IF err = NoErr THEN "get_path" ELSE "drop_folder"
    /\ UNCHANGED <<argVars, err, loopVars, comCount, nextId, outVars>>

\* A get-path failure that is propagated by `?` like the others.
GetPath_Fatal ==
    /\ pc = "get_path"
    /\ \/ \E e \in Errors :
            /\ err' = e
            /\ log' = Append(log, Call("GetPath", idx, e))
            /\ pc' = "drop_folder"
            /\ UNCHANGED <<live, held, nextId>>
       \/ /\ live' = live \cup {Res("path", nextId)}
          /\ held' = [held EXCEPT !.pwstr = nextId]
          /\ nextId' = nextId + 1
          /\ log' = log \o <<Call("GetPath", idx, "ok"),
                             Acquire("path", nextId, idx)>>
          /\ pc' = "decode_path"
          /\ UNCHANGED err
    /\ UNCHANGED <<argVars, loopVars, comCount, outVars>>

\* A get-path that is tried a second time when it fails.
GetPath_Retry ==
    /\ pc = "get_path"
    /\ \/ \E e \in Errors :
            /\ log' = Append(log, Call("GetPath", idx, e))
            /\ IF \E i \in DOMAIN log :
                    log[i].ev = "call" /\ log[i].kind = "GetPath" /\ log[i].n = idx
               THEN try_path' = ErrPath(e) /\ pc' = "push"
               ELSE UNCHANGED <<try_path, pc>>
            /\ UNCHANGED <<live, held, nextId>>
       \/ /\ live' = live \cup {Res("path", nextId)}
          /\ held' = [held EXCEPT !.pwstr = nextId]
          /\ nextId' = nextId + 1
          /\ log' = log \o <<Call("GetPath", idx, "ok"),
                             Acquire("path", nextId, idx)>>
          /\ pc' = "decode_path"
          /\ UNCHANGED try_path
    /\ UNCHANGED <<argVars, err, count, idx, name, named_paths, comCount, outVars>>

\* match folder.GetPath(flags.0 as u32) { Ok(pwstr) => Ok(CoStr::new(pwstr)...),
\*                                        Err(e) => Err(e) }
GetPath ==
    /\ pc = "get_path"
    /\ \/ \E e \in Errors :
            /\ try_path' = ErrPath(e)
            /\ log' = Append(log, Call("GetPath", idx, e))
            /\ pc' = "push"
            /\ UNCHANGED <<live, held, nextId>>
       \/ /\ live' = live \cup {Res("path", nextId)}
          /\ held' = [held EXCEPT !.pwstr = nextId]
          /\ nextId' = nextId + 1
          /\ log' = log \o <<Call("GetPath", idx, "ok"),
                             Acquire("path", nextId, idx)>>
          /\ pc' = "decode_path"
          /\ UNCHANGED try_path
    /\ UNCHANGED <<argVars, err, count, idx, name, named_paths, comCount, outVars>>

\* A decoding whose failure becomes the record's outcome.
DecodePath_PerEntry ==
    /\ pc = "decode_path"
    /\ \/ \E p \in FolderPaths :
            /\ try_path' = OkPath(p)
            /\ log' = Append(log, Read("path", held.pwstr, idx, TRUE, p))
       \/ /\ try_path' = ErrPath(Utf16Error)
          /\ log' = Append(log, Read("path", held.pwstr, idx, FALSE, <<Utf16Error>>))
    /\ pc' = "drop_costr"
    /\ UNCHANGED <<argVars, err, held, count, idx, name, named_paths, comCount,
                   live, nextId, outVars>>

\* CoStr::new(pwstr).to_string()?
DecodePath ==
    /\ pc = "decode_path"
    /\ \/ \E p \in FolderPaths :
            /\ try_path' = OkPath(p)
            /\ log' = Append(log, Read("path", held.pwstr, idx, TRUE, p))
            /\ UNCHANGED err
       \/ /\ err' = Utf16Error
          /\ log' = Append(log, Read("path", held.pwstr, idx, FALSE, <<Utf16Error>>))
          /\ UNCHANGED try_path
    /\ pc' = "drop_costr"
    /\ UNCHANGED <<argVars, held, count, idx, name, named_paths, comCount,
                   live, nextId, outVars>>

\* impl Drop for CoStr: the temporary is dropped at the end of the match
\* arm, also when the `?` in it returns.
DropCoStr ==
    /\ pc = "drop_costr"
    /\ live' = live \ {Res("path", held.pwstr)}
    /\ log' = Append(log, Release("path", held.pwstr, idx))
    /\ held' = [held EXCEPT !.pwstr = 0]
    /\ pc' = IF err = NoErr THEN "push" ELSE "drop_folder"
    /\ UNCHANGED <<argVars, err, loopVars, comCount, nextId, outVars>>

\* named_paths.push(NamedPath { name, try_path })
Push ==
    /\ pc = "push"
    /\ named_paths' = Append(named_paths, [name |-> name, try_path |-> try_path])
    /\ name' = NoName
    /\ try_path' = NoPath
    /\ pc' = "drop_folder"
    /\ UNCHANGED <<argVars, err, held, count, idx, comCount, live, nextId, log,
                   outVars>>

\* An entry handle that is released only when the iteration completes.
DropFolder_LeakOnError ==
    /\ pc = "drop_folder"
    /\ IF err = NoErr
       THEN /\ live' = live \ {Res("folder", held.folder)}
            /\ log' = Append(log, Release("folder", held.folder, idx))
       ELSE UNCHANGED <<live, log>>
    /\ held' = [held EXCEPT !.folder = 0]
    /\ pc' = IF err = NoErr THEN "loop" ELSE "drop_ids"
    /\ UNCHANGED <<argVars, err, loopVars, comCount, nextId, outVars>>

\* `folder` goes out of scope: at the end of the loop body, or when a `?`
\* in the body returns (IKnownFolder::Release).
DropFolder ==
    /\ pc = "drop_folder"
    /\ live' = live \ {Res("folder", held.folder)}
    /\ log' = Append(log, Release("folder", held.folder, idx))
    /\ held' = [held EXCEPT !.folder = 0]
    /\ pc' = IF err = NoErr THEN "loop" ELSE "drop_ids"
    /\ UNCHANGED <<argVars, err, loopVars, comCount, nextId, outVars>>

\* A drop that frees nothing when the array holds no identifier.
DropIds_SkipEmpty ==
    /\ \/ pc = "loop" /\ idx >= count
       \/ pc = "drop_ids"
    /\ IF count = 0
       THEN UNCHANGED <<live, log>>
       ELSE /\ live' = live \ {Res("ids", held.pkfid)}
            /\ log' = Append(log, Release("ids", held.pkfid, 0))
    /\ held' = [held EXCEPT !.pkfid = 0]
    /\ pc' = "drop_manager"
    /\ UNCHANGED <<argVars, err, loopVars, comCount, nextId, outVars>>

\* impl Drop for KnownFolderIds: the temporary of the `for` expression is
\* dropped when the loop ends, or when a `?` in the body returns.
DropIds ==
    /\ \/ pc = "loop" /\ idx >= count
       \/ pc = "drop_ids"
    /\ live' = live \ {Res("ids", held.pkfid)}
    /\ log' = Append(log, Release("ids", held.pkfid, 0))
    /\ held' = [held EXCEPT !.pkfid = 0]
    /\ pc' = "drop_manager"
    /\ UNCHANGED <<argVars, err, loopVars, comCount, nextId, outVars>>

\* `kf_manager` goes out of scope (IKnownFolderManager::Release).
DropManager ==
    /\ pc = "drop_manager"
    /\ live' = live \ {Res("manager", held.kf_manager)}
    /\ log' = Append(log, Release("manager", held.kf_manager, 0))
    /\ held' = [held EXCEPT !.kf_manager = 0]
    /\ pc' = "ret_named_paths"
    /\ UNCHANGED <<argVars, err, loopVars, comCount, nextId, outVars>>

(***************************************************************************)
(* run and print_table                                                     *)
(***************************************************************************)
\* The byte of a character.
Byte(c) == CHOOSE i \in 1..Len(ByteOrder) : ByteOrder[i] = c

\* a.cmp(&b) == Ordering::Less for Strings: the first differing byte
\* decides, and a proper prefix is less.
StrLess(a, b) ==
    \E k \in 1..Len(b) :
        /\ k <= Len(a) + 1
        /\ \A j \in 1..(k - 1) : a[j] = b[j]
        /\ \/ k = Len(a) + 1
           \/ Byte(a[k]) < Byte(b[k])

\* A sort in the opposite order.
SortByName_Descending(s) ==
    IF s = <<>> THEN <<>>
    ELSE LET n == Len(s)
             \* the number of elements that go before s[i]
             before(i) ==
                Cardinality({j \in 1..n :
                    \/ StrLess(s[i].name, s[j].name)
                    \/ s[j].name = s[i].name /\ j < i})
         IN  [k \in 1..n |-> s[CHOOSE i \in 1..n : before(i) = k - 1]]

\* named_paths.sort_by(|a, b| a.name.cmp(&b.name)): a stable sort, so
\* records of equal names keep their order.
SortByName(s) ==
    IF s = <<>> THEN <<>>
    ELSE LET n == Len(s)
             \* the number of elements that go before s[i]
             before(i) ==
                Cardinality({j \in 1..n :
                    \/ StrLess(s[j].name, s[i].name)
                    \/ s[j].name = s[i].name /\ j < i})
         IN  [k \in 1..n |-> s[CHOOSE i \in 1..n : before(i) = k - 1]]

\* The largest of a set of naturals, 0 for the empty set:
\* .max().unwrap_or(0)
MaxOr0(S) == IF S = {} THEN 0 ELSE CHOOSE m \in S : \A x \in S : x <= m

\* n spaces.
Spaces(n) == [i \in 1..n |-> " "]

\* try_path.unwrap_or_else(|e| format!("[{}]", e.message()))
PathItem(tp) ==
    IF tp.ok THEN tp.path ELSE <<"[">> \o Message(tp.err) \o <<"]">>

\* format!("{name:<name_width_estimate$}  {path_item}")
TableLine(np, width) ==
    np.name \o Spaces(IF Len(np.name) < width THEN width - Len(np.name) ELSE 0)
        \o <<" ", " ">> \o PathItem(np.try_path)

\* run: `get_named_paths(flags)?` returns.  On Err the Vec built so far is
\* dropped and run returns the error to main.
ReturnNamedPaths ==
    /\ pc = "ret_named_paths"
    /\ IF err = NoErr
       THEN pc' = "sort" /\ UNCHANGED <<named_paths, name, try_path>>
       ELSE /\ pc' = "drop_com"
            /\ named_paths' = <<>>
            /\ name' = NoName
            /\ try_path' = NoPath
    /\ UNCHANGED <<argVars, err, held, count, idx, comCount, live, nextId, log,
                   outVars>>

\* run: named_paths.sort_by(...)
Sort ==
    /\ pc = "sort"
    /\ named_paths' = SortByName(named_paths)
    /\ pc' = "print_table"
    /\ UNCHANGED <<argVars, err, held, count, idx, name, try_path, comCount,
                   live, nextId, log, outVars>>

\* run: print_table(named_paths); Ok(())
PrintTable ==
    /\ pc = "print_table"
    /\ LET name_width_estimate ==
                MaxOr0({Len(named_paths[i].name) : i \in 1..Len(named_paths)})
           lines ==
                [i \in 1..Len(named_paths) |->
                    TableLine(named_paths[i], name_width_estimate)]
       IN  /\ stdout' = stdout \o lines
           /\ log' = log \o [i \in 1..Len(named_paths) |-> Printed(i, lines[i])]
    /\ named_paths' = <<>>
    /\ pc' = "drop_com"
    /\ UNCHANGED <<argVars, err, held, count, idx, name, try_path, comCount,
                   live, nextId, stderr, exitCode>>

(***************************************************************************)
(* main, after run                                                         *)
(***************************************************************************)
\* A guard whose drop does nothing.
DropCom_Forgotten ==
    /\ pc = "drop_com"
    /\ held' = [held EXCEPT !.com = 0]
    /\ pc' = "main_ret"
    /\ UNCHANGED <<argVars, err, loopVars, comCount, live, log, nextId, outVars>>

\* impl Drop for ComInit: `_com` goes out of scope when main returns
\* (CoUninitialize).
DropCom ==
    /\ pc = "drop_com"
    /\ comCount' = comCount - 1
    /\ live' = live \ {Res("session", held.com)}
    /\ log' = Append(log, Release("session", held.com, 0))
    /\ held' = [held EXCEPT !.com = 0]
    /\ pc' = "main_ret"
    /\ UNCHANGED <<argVars, err, loopVars, nextId, outVars>>

\* main returns its Result: Ok(()) exits with 0; Err(e) prints
\* "Error: {e:?}" on the error stream and exits with 1.
MainReturn ==
    /\ pc = "main_ret"
    /\ IF err = NoErr
       THEN exitCode' = 0 /\ UNCHANGED stderr
       ELSE exitCode' = 1 /\ stderr' = Append(stderr, <<"Error", err>>)
    /\ pc' = "exited"
    /\ UNCHANGED <<argVars, stdout>>
    /\ UNCHANGED <<err, held, loopVars, comCount, live, nextId, log>>

Next ==
    \/ ReadArgsBegin
    \/ ReadArg
    \/ ReadArgsEnd
    \/ MainFlags
    \/ ComInitNew
    \/ CreateManager
    \/ GetFolderIds
    \/ GetFolder
    \/ GetFolderDefinition
    \/ DecodeName
    \/ DropDefinition
    \/ GetPath
    \/ DecodePath
    \/ DropCoStr
    \/ Push
    \/ DropFolder
    \/ DropIds
    \/ DropManager
    \/ ReturnNamedPaths
    \/ Sort
    \/ PrintTable
    \/ DropCom
    \/ MainReturn

Spec == Init /\ [][Next]_vars

(***************************************************************************)
(* Reading the log.                                                        *)
(***************************************************************************)
\* The positions of the log's entries `ev` of the kinds `kinds`.
At(ev, kinds) == {i \in DOMAIN log : log[i].ev = ev /\ log[i].kind \in kinds}

\* The resource an entry of the log is about.
ResOf(i) == Res(log[i].kind, log[i].id)

\* The resource categories owned by KnownFolderIds, KnownFolderDefinition
\* and CoStr.
IdArray == {"ids"}

EntryDefinition == {DefinitionFields[i] : i \in 1..Len(DefinitionFields)}

PathString == {"path"}

OwnedCategories == {IdArray, EntryDefinition, PathString}

AllKinds ==
    {"session", "manager", "ids", "folder", "path"} \cup EntryDefinition

\* The calls to the folder registry.
RegistryCalls ==
    {"CoCreateInstance", "GetFolderIds", "GetFolder", "GetFolderDefinition",
     "GetPath"}

\* The successful and the failed calls of fn.
Succeeded(fn) == {i \in At("call", {fn}) : log[i].ok}

Failed(fn) == {i \in At("call", {fn}) : ~log[i].ok}

\* get_named_paths was called and has returned.
ReturnedFromGetNamedPaths ==
    /\ At("call", {"CoCreateInstance"}) # {}
    /\ pc \in {"ret_named_paths", "sort", "print_table", "drop_com",
               "main_ret", "exited"}

\* The account of the resources of the kinds `kinds` kept over the first
\* `upto` entries of the log, continued from entry i on: the resources
\* acquired and not released (live), those released (freed), and whether
\* every acquisition so far was of a new resource and every release of a
\* live one (ok).  The account stops at the first entry that is not.
RECURSIVE LedgerFrom(_, _, _, _)
LedgerFrom(i, upto, kinds, acc) ==
    IF i > upto \/ ~acc.ok THEN acc
    ELSE IF log[i].kind \notin kinds THEN LedgerFrom(i + 1, upto, kinds, acc)
    ELSE IF log[i].ev = "acquire"
    THEN LedgerFrom(i + 1, upto, kinds,
            [ok    |-> acc.ok /\ ResOf(i) \notin acc.live \cup acc.freed,
             live  |-> acc.live \cup {ResOf(i)},
             freed |-> acc.freed])
    ELSE IF log[i].ev = "release"
    THEN LedgerFrom(i + 1, upto, kinds,
            [ok    |-> acc.ok /\ ResOf(i) \in acc.live,
             live  |-> acc.live \ {ResOf(i)},
             freed |-> acc.freed \cup {ResOf(i)}])
    ELSE LedgerFrom(i + 1, upto, kinds, acc)

Ledger(kinds, upto) ==
    LedgerFrom(1, upto, kinds, [ok |-> TRUE, live |-> {}, freed |-> {}])

(***************************************************************************)
(* C1: for the id array, the entry definitions and the path strings, and   *)
(* whatever calls fail: every release is of a resource acquired before and *)
(* not released since (no double free); and once get_named_paths has       *)
(* returned, every resource acquired has been released (no leak), so that  *)
(* the releases of each category are as many as its acquisitions.          *)
(***************************************************************************)
C1_ReleasesMatchAcquisitions ==
    \A cat \in OwnedCategories :
        LET ledger == Ledger(cat, Len(log))
        IN  /\ ledger.ok
            /\ ledger.live = {r \in live : r.kind \in cat}
            /\ ReturnedFromGetNamedPaths =>
                /\ ledger.live = {}
                /\ Cardinality(At("release", cat)) = Cardinality(At("acquire", cat))

\* get_named_paths returned an error raised in the second entry, after it
\* had acquired an id array, two definitions and a path string.
C1_Witness ==
    /\ pc = "ret_named_paths"
    /\ err # NoErr
    /\ idx = 2
    /\ Cardinality(At("acquire", IdArray)) = 1
    /\ Cardinality(At("acquire", EntryDefinition)) = 2 * Len(DefinitionFields)
    /\ Cardinality(At("acquire", PathString)) >= 1

(***************************************************************************)
(* C2: CoUninitialize is called once in a run whose CoInitializeEx         *)
(* succeeded, also when run returns an error, and never in a run whose     *)
(* CoInitializeEx failed or was not called.                                *)
(***************************************************************************)
C2_SessionClosedOnce ==
    LET opened == Cardinality(Succeeded("CoInitializeEx"))
        closed == Cardinality(At("release", {"session"}))
    IN  /\ closed <= opened
        /\ comCount = opened - closed
        /\ pc = "exited" => closed = (IF opened > 0 THEN 1 ELSE 0)

\* A run that opened the session, failed in get_named_paths, and exited.
C2_Witness ==
    /\ pc = "exited"
    /\ err # NoErr
    /\ Succeeded("CoInitializeEx") # {}
    /\ Failed("GetFolderDefinition") # {}
    /\ Cardinality(At("release", {"session"})) = 1

(***************************************************************************)
(* C3: at most one session is open at a time; every registry call is made  *)
(* after a successful CoInitializeEx and before CoUninitialize; and when   *)
(* the session is closed, nothing acquired under it is still unreleased.   *)
(***************************************************************************)
C3_SessionBracketsCalls ==
    LET opens  == At("acquire", {"session"})
        closes == At("release", {"session"})
    IN  /\ Cardinality({r \in live : r.kind = "session"}) <= 1
        /\ comCount <= 1
        /\ \A i \in At("call", RegistryCalls) :
            /\ \E j \in opens : j < i
            /\ \A k \in closes : i < k
        /\ \A k \in closes :
            LET ledger == Ledger(AllKinds \ {"session"}, k)
            IN  ledger.ok /\ ledger.live = {}

\* A run that queried a path and has closed its session.
C3_Witness ==
    /\ pc = "exited"
    /\ At("release", {"session"}) # {}
    /\ At("call", {"GetPath"}) # {}
    /\ At("acquire", {"path"}) # {}

(***************************************************************************)
(* C4: resources are released in the reverse order of their acquisition:   *)
(* every release is of the most recently acquired resource that is still   *)
(* live, on every path.  (The string fields of one definition are acquired *)
(* together, by one call, and count as one resource.)                      *)
(***************************************************************************)
\* The owner's resource an entry of the log is about.
Unit(i) ==
    IF log[i].kind \in EntryDefinition
    THEN Res("definition", log[i].id)
    ELSE ResOf(i)

\* Whether the releases from entry i of the log on are each of the top of
\* the stack of live resources; stack[k].n counts the blocks of a resource
\* not freed yet.
RECURSIVE ReleasedFromTop(_, _)
ReleasedFromTop(i, stack) ==
    LET top == Len(stack)
    IN  IF i > Len(log) THEN TRUE
        ELSE IF log[i].ev = "acquire"
        THEN IF top > 0 /\ stack[top].unit = Unit(i)
             THEN ReleasedFromTop(i + 1, [stack EXCEPT ![top].n = @ + 1])
             ELSE ReleasedFromTop(i + 1, Append(stack, [unit |-> Unit(i), n |-> 1]))
        ELSE IF log[i].ev = "release"
        THEN /\ top > 0
             /\ stack[top].unit = Unit(i)
             /\ ReleasedFromTop(i + 1,
                    IF stack[top].n = 1
                    THEN SubSeq(stack, 1, top - 1)
                    ELSE [stack EXCEPT ![top].n = @ - 1])
        ELSE ReleasedFromTop(i + 1, stack)

C4_ReverseOrder == ReleasedFromTop(1, <<>>)

\* A run that failed in its second entry and has released a path string,
\* two definitions, two entry handles, the id array, the manager and the
\* session.
C4_Witness ==
    /\ pc = "exited"
    /\ err # NoErr
    /\ At("release", {"path"}) # {}
    /\ Cardinality(At("release", {"pszName"})) = 2
    /\ Cardinality(At("release", {"folder"})) = 2
    /\ At("release", {"ids"}) # {}
    /\ At("release", {"manager"}) # {}
    /\ At("release", {"session"}) # {}

(***************************************************************************)
(* C5: when flag translation returns an error, the program does nothing    *)
(* with the service (no session, no call, no release) and prints no table  *)
(* line; it reports the error and exits with code 2.                       *)
(***************************************************************************)
FlagErrorKinds == {"UnrecognizedOption", "UnrecognizedFlag", "BannedFlag"}

C5_FlagErrorExitsBeforeService ==
    parsed.kind \in FlagErrorKinds =>
        /\ log = <<>>
        /\ live = {}
        /\ comCount = 0
        /\ stdout = <<>>
        /\ pc \in {"main_flags", "exited"}
        /\ pc = "exited" =>
            /\ exitCode = 2
            /\ stderr = << <<"Error", parsed.kind, parsed.token>> >>

\* A banned flag after an accepted one: reported, exit code 2.
C5_Witness ==
    /\ pc = "exited"
    /\ parsed.kind = "BannedFlag"
    /\ argi = 2
    /\ exitCode = 2

(***************************************************************************)
(* C6, as the specification states it: when flag translation succeeds and  *)
(* CoInitializeEx fails, the process exits with code 2 and prints no table *)
(* line.                                                                   *)
(***************************************************************************)
C6_AsStated ==
    (pc = "exited" /\ parsed.ok /\ Failed("CoInitializeEx") # {}) =>
        /\ exitCode = 2
        /\ stdout = <<>>

(***************************************************************************)
(* C6, amended: when flag translation succeeds and CoInitializeEx fails,   *)
(* main returns the error: nothing else is asked of the service, no table  *)
(* line is printed, and the process reports the error and exits with code  *)
(* 1.                                                                      *)
(***************************************************************************)
C6_SessionOpenFailureExitsWith1 ==
    (parsed.ok /\ Failed("CoInitializeEx") # {}) =>
        /\ At("call", RegistryCalls) = {}
        /\ stdout = <<>>
        /\ pc \in {"main_ret", "exited"}
        /\ pc = "exited" =>
            /\ exitCode = 1
            /\ stderr = << <<"Error", err>> >>
            /\ <<err>> = log[Len(log)].val

\* CoInitializeEx failed with E_ACCESSDENIED and the process has exited.
C6_Witness ==
    /\ pc = "exited"
    /\ parsed.ok
    /\ Failed("CoInitializeEx") # {}
    /\ err = "E_ACCESSDENIED"
    /\ exitCode = 1

(***************************************************************************)
(* C7: a failed GetPath is not propagated: its error becomes the record's  *)
(* outcome and the loop goes on.  When get_named_paths returns Ok it       *)
(* returns one record for each identifier, in the identifiers' order, each *)
(* with the name decoded for its entry and with what GetPath gave for it:  *)
(* the decoded path, or the error of the call.  An error it returns is     *)
(* never that of a GetPath call.                                           *)
(***************************************************************************)
\* The entries of the log that failed, other than GetPath calls.
FatalFailures == {i \in DOMAIN log : ~log[i].ok /\ log[i].kind # "GetPath"}

\* The record the log tells for entry k: the name read from its definition
\* and the outcome of its GetPath call.
RecordOf(k) ==
    LET nameAt == CHOOSE i \in At("read", {"pszName"}) : log[i].n = k
        callAt == CHOOSE i \in At("call", {"GetPath"}) : log[i].n = k
        pathAt == CHOOSE i \in At("read", {"path"}) : log[i].n = k
    IN  [name     |-> log[nameAt].val,
         try_path |-> IF log[callAt].ok
                      THEN OkPath(log[pathAt].val)
                      ELSE ErrPath(log[callAt].val[1])]

C7_PathFailureIsNotFatal ==
    /\ err # NoErr => \E i \in FatalFailures : log[i].val = <<err>>
    /\ (log # <<>> /\ log[Len(log)].kind = "GetPath" /\ ~log[Len(log)].ok) =>
            /\ err = NoErr
            /\ pc \in {"push", "drop_folder"}
            /\ pc = "push" => try_path = ErrPath(log[Len(log)].val[1])
            /\ pc = "drop_folder" =>
                    named_paths[Len(named_paths)].try_path =
                        ErrPath(log[Len(log)].val[1])
    /\ (pc = "ret_named_paths" /\ err = NoErr) =>
            /\ Len(named_paths) = count
            /\ \A k \in 1..count : named_paths[k] = RecordOf(k)

\* get_named_paths returns Ok with two records: the first entry's GetPath
\* failed, the second's succeeded.
C7_Witness ==
    /\ pc = "ret_named_paths"
    /\ err = NoErr
    /\ count = 2
    /\ Len(named_paths) = 2
    /\ named_paths[1].try_path = ErrPath("E_FAIL")
    /\ named_paths[2].try_path.ok

(***************************************************************************)
(* C8: once GetFolderIds, GetFolder, GetFolderDefinition or the decoding   *)
(* of the display name has failed, for any entry, the run is aborted: the  *)
(* error is propagated, nothing but releases follows, get_named_paths      *)
(* yields no record, no table line is printed, and the process exits with  *)
(* a non-zero code.                                                        *)
(***************************************************************************)
EnumerationFailures ==
    {i \in DOMAIN log :
        /\ ~log[i].ok
        /\ \/ log[i].ev = "call" /\ log[i].kind \in
                    {"GetFolderIds", "GetFolder", "GetFolderDefinition"}
           \/ log[i].ev = "read" /\ log[i].kind = "pszName"}

C8_EnumerationFailureAborts ==
    \A i \in EnumerationFailures :
        /\ err = log[i].val[1]
        /\ \A j \in (i + 1)..Len(log) : log[j].ev = "release"
        /\ stdout = <<>>
        /\ pc \in {"drop_definition", "drop_folder", "drop_ids", "drop_manager",
                   "ret_named_paths", "drop_com", "main_ret", "exited"}
        /\ pc \in {"drop_com", "main_ret", "exited"} => named_paths = <<>>
        /\ pc = "exited" => exitCode > 0

\* The name of the second entry could not be decoded, after the first
\* entry had been recorded; the process has exited.
C8_Witness ==
    /\ pc = "exited"
    /\ \E i \in EnumerationFailures :
        log[i].kind = "pszName" /\ log[i].n = 2
    /\ At("call", {"GetPath"}) # {}
    /\ stdout = <<>>
    /\ exitCode = 1

(***************************************************************************)
(* C9: a command line holding a token that names CREATE or INIT, in upper, *)
(* lower or mixed case, with or without KF_FLAG_, is rejected, whatever    *)
(* tokens stand before or after it; and when that token is the one         *)
(* rejected, the error is BannedFlag of the flag's name.                   *)
(***************************************************************************)
BannedNames ==
    {PREFIX \o <<"C", "R", "E", "A", "T", "E">>, PREFIX \o <<"I", "N", "I", "T">>}

BannedSpellings == UNION {Spellings(n) : n \in BannedNames}

C9_BannedTokenRejected ==
    pc = "main_flags" =>
        /\ (\E k \in 1..Len(args) : args[k] \in BannedSpellings) =>
                parsed.kind \in FlagErrorKinds
        /\ (parsed.kind \in FlagErrorKinds /\ args[argi] \in BannedSpellings) =>
                \E n \in BannedNames :
                    /\ args[argi] \in Spellings(n)
                    /\ parsed = ErrFlags("BannedFlag", n)

\* "InIt" after an accepted flag: BannedFlag.
C9_Witness ==
    /\ pc = "main_flags"
    /\ Len(args) = 2
    /\ argi = 2
    /\ args[2] = <<"I", "n", "I", "t">>
    /\ parsed.kind = "BannedFlag"

(***************************************************************************)
(* C10: neither assertion of read_args_as_kf_flags fails, and a mask       *)
(* returned as Ok holds neither the bit of KF_FLAG_CREATE nor the bit of   *)
(* KF_FLAG_INIT, for every command line.                                   *)
(***************************************************************************)
C10_OkMaskHasNoBannedFlag ==
    /\ exitCode # 101
    /\ pc # "read_args" => \A k \in 1..Len(stderr) : stderr[k][1] # "panic"
    /\ parsed.ok =>
        /\ ~(KF_FLAG_CREATE \subseteq parsed.flags)
        /\ ~(KF_FLAG_INIT \subseteq parsed.flags)

\* Two accepted flags were combined.
C10_Witness ==
    /\ parsed.ok
    /\ Len(args) = 2
    /\ parsed.flags = KF_FLAG_NO_ALIAS \cup KF_FLAG_ALIAS_ONLY

(***************************************************************************)
(* C11: for a command line of accepted tokens the mask returned is the OR  *)
(* of the values of the flags named, a function of the set of the tokens   *)
(* alone: neither the order of the tokens nor a repeated token changes it. *)
(* While the loop runs, `flags` is the OR over the tokens taken so far.    *)
(***************************************************************************)
\* The OR of the values of the flags a set of accepted tokens names.
OrOfFlagsNamed(tokens) ==
    UNION {TableGet(normalize_flag_name(t)) : t \in tokens}

C11_MaskIsOrOfFlagsNamed ==
    /\ pc = "args_loop" =>
            flags = OrOfFlagsNamed({args[k] : k \in 1..(argi - 1)})
    /\ parsed.ok =>
            parsed.flags = OrOfFlagsNamed({args[k] : k \in 1..Len(args)})

\* ["NO_ALIAS", "DONT_VERIFY"] gave the mask of both flags.
C11_Witness ==
    /\ pc = "main_flags"
    /\ parsed.ok
    /\ args = << <<"N", "O", "_", "A", "L", "I", "A", "S">>,
                 <<"D", "O", "N", "T", "_", "V", "E", "R", "I", "F", "Y">> >>
    /\ parsed.flags = {12, 14}

(***************************************************************************)
(* C12: when the token the loop has reached begins with '-', the result is *)
(* UnrecognizedOption of the token as it was given, whatever follows the   *)
(* hyphen; a command line holding such a token is never translated to a    *)
(* mask.                                                                   *)
(***************************************************************************)
\* The token begins with '-'.
Hyphened(t) == Len(t) > 0 /\ t[1] = "-"

C12_HyphenTokenIsUnrecognizedOption ==
    /\ (pc = "main_flags" /\ argi <= Len(args) /\ Hyphened(args[argi])) =>
            parsed = ErrFlags("UnrecognizedOption", args[argi])
    /\ parsed.kind = "UnrecognizedOption" =>
            Hyphened(args[argi]) /\ parsed.token = args[argi]
    /\ parsed.ok => \A k \in 1..Len(args) : ~Hyphened(args[k])

\* "-create" after an accepted flag: UnrecognizedOption, not BannedFlag.
C12_Witness ==
    /\ pc = "main_flags"
    /\ Len(args) = 2
    /\ argi = 2
    /\ args[2] = <<"-", "c", "r", "e", "a", "t", "e">>
    /\ parsed = ErrFlags("UnrecognizedOption", args[2])

(***************************************************************************)
(* C13: after a successful run the table has one line for each entry of    *)
(* the registry: the lines are the entries' lines in some order (the name, *)
(* padded to the longest name, two spaces, then the decoded path of an Ok  *)
(* outcome or the bracketed message of an Err outcome), and they are in    *)
(* ascending byte order of the names.                                      *)
(***************************************************************************)
\* The run has ended in success.
RunSucceeded == pc = "exited" /\ exitCode = 0

\* The permutations of 1..n.
PermutationsOf(n) == {f \in [1..n -> 1..n] : \A i, j \in 1..n : f[i] = f[j] => i = j}

\* The line the table is to show for record r, the longest name being of
\* `width` characters.
ExpectedLine(r, width) ==
    r.name \o [i \in 1..(width - Len(r.name)) |-> " "] \o <<" ", " ">>
        \o (IF r.try_path.ok
            THEN r.try_path.path
            ELSE <<"[">> \o Message(r.try_path.err) \o <<"]">>)

\* a <= b in the byte order of strings.
BytesLeq(a, b) ==
    \/ \E k \in 1..Len(a) :
            /\ k <= Len(b)
            /\ SubSeq(a, 1, k - 1) = SubSeq(b, 1, k - 1)
            /\ Byte(a[k]) < Byte(b[k])
    \/ Len(a) <= Len(b) /\ a = SubSeq(b, 1, Len(a))

C13_TableIsSortedAndComplete ==
    RunSucceeded =>
        LET width == MaxOr0({Len(RecordOf(k).name) : k \in 1..count})
        IN  /\ Len(stdout) = count
            /\ \E f \in PermutationsOf(count) :
                    /\ \A i \in 1..count :
                            stdout[i] = ExpectedLine(RecordOf(f[i]), width)
                    /\ \A i \in 1..(count - 1) :
                            BytesLeq(RecordOf(f[i]).name, RecordOf(f[i + 1]).name)

\* The registry gave "ZD" (GetPath failed) and then "D" (GetPath gave a
\* path): the table shows "D" first, and a bracketed message for "ZD".
C13_Witness ==
    /\ RunSucceeded
    /\ count = 2
    /\ RecordOf(1) = [name |-> <<"Z", "D">>, try_path |-> ErrPath("E_FAIL")]
    /\ RecordOf(2).name = <<"D">>
    /\ RecordOf(2).try_path.ok
    /\ stdout = << <<"D", " ", " ", " ", "C", "_", "x">>,
                   <<"Z", "D", " ", " ", "[", "f", "a", "i", "l", "]">> >>

(***************************************************************************)
(* C14: when GetFolderIds returns no identifier, no identifier is read, no *)
(* GetFolder, GetFolderDefinition or GetPath call is made, nothing is      *)
(* printed, and the run ends with exit code 0 after the id array and the   *)
(* session have each been released once.                                   *)
(***************************************************************************)
\* GetFolderIds succeeded and returned an empty array.
ZeroIdentifiers == Succeeded("GetFolderIds") # {} /\ count = 0

C14_EmptyRegistrySucceeds ==
    ZeroIdentifiers =>
        /\ At("call", {"GetFolder", "GetFolderDefinition", "GetPath"}) = {}
        /\ At("read", {"ids"}) = {}
        /\ stdout = <<>>
        /\ err = NoErr
        /\ Cardinality(At("release", {"ids"})) <= 1
        /\ Cardinality(At("release", {"session"})) <= 1
        /\ pc \in {"drop_manager", "ret_named_paths", "sort", "print_table",
                   "drop_com", "main_ret", "exited"} =>
                Cardinality(At("release", {"ids"})) = 1
        /\ pc = "exited" =>
                /\ exitCode = 0
                /\ Cardinality(At("release", {"session"})) = 1
                /\ live = {}

\* A run on an empty registry has ended.
C14_Witness ==
    /\ ZeroIdentifiers
    /\ pc = "exited"
    /\ exitCode = 0
    /\ stdout = <<>>
    /\ At("release", {"ids"}) # {}

(***************************************************************************)
(* ComInit on its own: guards opened and dropped on one thread, in any     *)
(* order.                                                                  *)
(***************************************************************************)
\* Most calls of ComInit::new explored by SpecComInit.
MaxOpens == 3

\* What CoInitializeEx(None, COINIT_APARTMENTTHREADED) returns on a thread
\* whose initialisation count is c: S_OK for the first initialisation,
\* S_FALSE when COM is already initialised on the thread (in the same mode,
\* the only one the program asks for), or a failure.
CoInitializeExResults(c) ==
    (IF c = 0 THEN {"S_OK"} ELSE {"S_FALSE"}) \cup Errors

\* HRESULT::ok(): Err for a failure code, Ok(()) for S_OK and for S_FALSE.
HresultIsOk(hr) == hr \notin Errors

\* The live guards.
Sessions == {r \in live : r.kind = "session"}

\* A session open that turns S_FALSE into an error, without undoing the
\* initialisation S_FALSE stands for.
ComInit_new_RejectNested ==
    /\ Cardinality({i \in DOMAIN log : log[i].ev = "call"}) < MaxOpens
    /\ \E hr \in CoInitializeExResults(comCount) :
        IF hr = "S_OK"
        THEN /\ comCount' = comCount + 1
             /\ live' = live \cup {Res("session", nextId)}
             /\ nextId' = nextId + 1
             /\ log' = log \o <<Call("CoInitializeEx", 0, "ok"),
                                Acquire("session", nextId, 0)>>
        ELSE /\ comCount' = IF hr = "S_FALSE" THEN comCount + 1 ELSE comCount
             /\ log' = Append(log, Call("CoInitializeEx", 0, hr))
             /\ UNCHANGED <<live, nextId>>
    /\ UNCHANGED <<argVars, pc, err, held, loopVars, outVars>>

\* ComInit::new(): CoInitializeEx(None, COINIT_APARTMENTTHREADED).ok()?; Ok(Self)
ComInit_new ==
    /\ Cardinality({i \in DOMAIN log : log[i].ev = "call"}) < MaxOpens
    /\ \E hr \in CoInitializeExResults(comCount) :
        IF HresultIsOk(hr)
        THEN /\ comCount' = comCount + 1
             /\ live' = live \cup {Res("session", nextId)}
             /\ nextId' = nextId + 1
             /\ log' = log \o <<Call("CoInitializeEx", 0, "ok"),
                                Acquire("session", nextId, 0)>>
        ELSE /\ log' = Append(log, Call("CoInitializeEx", 0, hr))
             /\ UNCHANGED <<comCount, live, nextId>>
    /\ UNCHANGED <<argVars, pc, err, held, loopVars, outVars>>

\* impl Drop for ComInit, for any of the live guards: CoUninitialize()
ComInit_drop ==
    /\ \E g \in Sessions :
        /\ comCount' = comCount - 1
        /\ live' = live \ {g}
        /\ log' = Append(log, Release("session", g.id, 0))
    /\ UNCHANGED <<argVars, pc, err, held, loopVars, nextId, outVars>>

InitComInit == InitWith({<<>>})

NextComInit == ComInit_new \/ ComInit_drop

SpecComInit == InitComInit /\ [][NextComInit]_vars

(***************************************************************************)
(* C15, as the specification states it: ComInit::new called while a guard  *)
(* is live on the thread returns an error, so that there are never two     *)
(* live guards on a thread.                                                *)
(***************************************************************************)
C15_AsStated ==
    /\ Cardinality(Sessions) <= 1
    /\ \A i \in Succeeded("CoInitializeEx") :
            Ledger({"session"}, i - 1).live = {}

(***************************************************************************)
(* C15, amended: ComInit::new returns an error only when CoInitializeEx    *)
(* fails.  Called while a guard is live it returns a further guard, and    *)
(* as each guard's drop calls CoUninitialize once, the thread's            *)
(* initialisation count is always the number of live guards.               *)
(***************************************************************************)
C15_NestedOpenIsBalanced ==
    /\ comCount = Cardinality(Sessions)
    /\ \A i \in Failed("CoInitializeEx") : log[i].val[1] \in Errors
    /\ Ledger({"session"}, Len(log)).ok
    /\ Ledger({"session"}, Len(log)).live = Sessions

\* Two guards are live: the second open succeeded while the first was held.
C15_Witness ==
    /\ Cardinality(Sessions) = 2
    /\ comCount = 2
    /\ Failed("CoInitializeEx") = {}

(***************************************************************************)
(* The flag translator on one token: every table name in every spelling.   *)
(***************************************************************************)
\* Every choice of letter case for the characters of s.
CaseVariants(s) ==
    {[i \in 1..Len(s) |-> IF i \in L THEN CharToLower(s[i]) ELSE CharToUpper(s[i])] :
        L \in SUBSET (1..Len(s))}

\* The tokens spelled in every letter case: a banned name with its prefix
\* and without, and an accepted name without.
EveryCaseTokens ==
    CaseVariants(PREFIX \o <<"I", "N", "I", "T">>)
        \cup CaseVariants(<<"I", "N", "I", "T">>)
        \cup CaseVariants(<<"N", "O", "_", "A", "L", "I", "A", "S">>)

\* The one-token command lines: each table name in the six forms of
\* Spellings, the tokens above, and the tokens that name no flag.
NameArgLists ==
    {<<t>> : t \in UNION {Spellings(n) : n \in TableKeys}
                    \cup EveryCaseTokens \cup UnknownTokens}

InitNames == InitWith(NameArgLists)

SpecNames == InitNames /\ [][NextFlags]_vars

(***************************************************************************)
(* C16: a token that spells a table name N in any letter case, with or     *)
(* without KF_FLAG_, is translated as N is: to the mask of N's flag, or to *)
(* BannedFlag of N when the flag is banned.  The name an error carries is  *)
(* a normalized one, which normalize_flag_name returns unchanged.          *)
(***************************************************************************)
\* The table names that token t spells, without regard to letter case or
\* to the prefix.
NamesSpelled(t) ==
    LET upper == [i \in 1..Len(t) |-> CharToUpper(t[i])]
    IN  {n \in TableKeys : n = upper \/ n = PREFIX \o upper}

\* The value the table gives for name n.
ValueOf(n) == NAMED_KF_FLAGS[CHOOSE i \in 1..Len(NAMED_KF_FLAGS) : NAMED_KF_FLAGS[i].name = n].flag

C16_SpellingsTranslateAlike ==
    /\ \A n \in NamesSpelled(args[1]) :
        /\ pc = "main_flags" =>
                parsed = IF ValueOf(n) \in {KF_FLAG_CREATE, KF_FLAG_INIT}
                         THEN ErrFlags("BannedFlag", n)
                         ELSE OkFlags(ValueOf(n))
        /\ normalize_flag_name(args[1]) = n
    /\ normalize_flag_name(normalize_flag_name(args[1])) = normalize_flag_name(args[1])
    /\ parsed.kind \in {"UnrecognizedFlag", "BannedFlag"} =>
        /\ normalize_flag_name(parsed.token) = parsed.token
        /\ ~starts_with(parsed.token, PREFIX \o PREFIX)

\* "nO_aLiAs" gave the mask of KF_FLAG_NO_ALIAS.
C16_Witness ==
    /\ pc = "main_flags"
    /\ args = << <<"n", "O", "_", "a", "L", "i", "A", "s">> >>
    /\ parsed = OkFlags(KF_FLAG_NO_ALIAS)

(***************************************************************************)
(* C17: nothing is asked of the service twice: CoInitializeEx,             *)
(* CoCreateInstance and GetFolderIds are each called at most once in a     *)
(* run, and GetFolder, GetFolderDefinition and GetPath at most once for    *)
(* each identifier, whether the call succeeded or failed.                  *)
(***************************************************************************)
\* The calls of fn made for entry n.
CallsFor(fn, n) == {i \in At("call", {fn}) : log[i].n = n}

C17_NoCallIsRepeated ==
    /\ \A fn \in {"CoInitializeEx", "CoCreateInstance", "GetFolderIds"} :
        /\ Cardinality(At("call", {fn})) <= 1
        /\ \A i \in At("call", {fn}) : log[i].n = 0
    /\ \A fn \in {"GetFolder", "GetFolderDefinition", "GetPath"} :
        /\ \A i \in At("call", {fn}) : log[i].n \in 1..count
        /\ \A n \in 1..count : Cardinality(CallsFor(fn, n)) <= 1

\* GetPath failed for the first of two entries; the run went on to the
\* second entry and ended, with one GetPath call for each.
C17_Witness ==
    /\ pc = "exited"
    /\ count = 2
    /\ \E i \in CallsFor("GetPath", 1) : ~log[i].ok
    /\ Cardinality(At("call", {"GetPath"})) = 2
    /\ Cardinality(At("call", {"GetFolder"})) = 2

(***************************************************************************)
(* C18: the tokens are examined in the order given, up to the first one    *)
(* that is rejected: the error returned is the one that token gives on its *)
(* own (hyphen: UnrecognizedOption of the token; no table name:            *)
(* UnrecognizedFlag of the normalized name; a banned name: BannedFlag of   *)
(* the name), whatever stands before or after it.  A mask is returned only *)
(* when no token is rejected.                                              *)
(***************************************************************************)
\* The error token t gives, or NoResult when it is accepted.
ErrorOf(t) ==
    IF Hyphened(t) THEN ErrFlags("UnrecognizedOption", t)
    ELSE LET names == NamesSpelled(t)
             upper == [i \in 1..Len(t) |-> CharToUpper(t[i])]
         IN  IF names = {}
             THEN ErrFlags("UnrecognizedFlag",
                           IF Len(t) >= Len(PREFIX) /\ SubSeq(upper, 1, Len(PREFIX)) = PREFIX
                           THEN upper
                           ELSE PREFIX \o upper)
             ELSE IF names \cap BannedNames # {}
             THEN ErrFlags("BannedFlag", CHOOSE n \in names : TRUE)
             ELSE NoResult

\* The positions of the rejected tokens.
RejectedAt == {k \in 1..Len(args) : ErrorOf(args[k]) # NoResult}

C18_FirstRejectedTokenDecides ==
    LET rejected == RejectedAt
    IN  /\ argi \in 1..(Len(args) + 1)
        /\ \A k \in 1..(argi - 1) : k \notin rejected
        /\ pc = "main_flags" =>
            IF rejected = {}
            THEN parsed.ok /\ argi = Len(args) + 1
            ELSE /\ argi \in rejected
                 /\ parsed = ErrorOf(args[argi])

\* "bogus" before "-": the error is UnrecognizedFlag of KF_FLAG_BOGUS.
C18_Witness ==
    /\ pc = "main_flags"
    /\ args = << <<"b", "o", "g", "u", "s">>, <<"-">> >>
    /\ argi = 1
    /\ parsed = ErrFlags("UnrecognizedFlag", PREFIX \o <<"B", "O", "G", "U", "S">>)

(***************************************************************************)
(* C19: when GetPath has succeeded and the decoding of the path string     *)
(* fails, the error is propagated: only releases follow, the first of them *)
(* that of the path string, which is released once before get_named_paths  *)
(* returns; get_named_paths yields no record, nothing is printed, and the  *)
(* process exits with a non-zero code.                                     *)
(***************************************************************************)
\* The failed decodings of a path string.
PathDecodeFailures == {i \in At("read", {"path"}) : ~log[i].ok}

\* The releases of the resource entry i of the log is about.
ReleasesOf(i) ==
    {j \in DOMAIN log : log[j].ev = "release" /\ ResOf(j) = ResOf(i)}

C19_PathDecodeFailureIsFatal ==
    \A i \in PathDecodeFailures :
        /\ \E c \in CallsFor("GetPath", log[i].n) : log[c].ok /\ c < i
        /\ err = Utf16Error
        /\ \A j \in (i + 1)..Len(log) : log[j].ev = "release"
        /\ i < Len(log) => ReleasesOf(i) = {i + 1}
        /\ pc \in {"drop_costr", "drop_folder", "drop_ids", "drop_manager",
                   "ret_named_paths", "drop_com", "main_ret", "exited"}
        /\ pc # "drop_costr" => ReleasesOf(i) = {i + 1}
        /\ pc \in {"drop_com", "main_ret", "exited"} => named_paths = <<>>
        /\ stdout = <<>>
        /\ pc = "exited" => exitCode > 0

\* The path of the second entry could not be decoded, after the first
\* entry had been recorded; get_named_paths has returned.
C19_Witness ==
    /\ pc = "drop_com"
    /\ \E i \in PathDecodeFailures : log[i].n = 2 /\ ReleasesOf(i) = {i + 1}
    /\ Cardinality(At("read", {"path"})) = 2
    /\ named_paths = <<>>
    /\ err = Utf16Error

(***************************************************************************)
(* C20: every read of a service-allocated resource is of one that has been *)
(* handed out and not yet released.  The id array is released after every  *)
(* identifier has been read and every entry has been dealt with; a         *)
(* definition after its name has been decoded; a path string after it has  *)
(* been decoded.                                                           *)
(***************************************************************************)
\* From entry i of the log on, every read is of a resource in `owned`,
\* the resources handed out and not yet released.
RECURSIVE ReadsOfLive(_, _)
ReadsOfLive(i, owned) ==
    IF i > Len(log) THEN TRUE
    ELSE IF log[i].ev = "acquire" THEN ReadsOfLive(i + 1, owned \cup {ResOf(i)})
    ELSE IF log[i].ev = "release" THEN ReadsOfLive(i + 1, owned \ {ResOf(i)})
    ELSE IF log[i].ev = "read"
    THEN IF ResOf(i) \in owned THEN ReadsOfLive(i + 1, owned) ELSE FALSE
    ELSE ReadsOfLive(i + 1, owned)

C20_NoReadAfterRelease ==
    /\ ReadsOfLive(1, {})
    /\ \A j \in At("release", {"ids"}) :
        /\ \A i \in At("read", {"ids"}) : i < j
        /\ \A i \in DOMAIN log : (log[i].n # 0 /\ log[i].ev # "print") => i < j
        /\ err = NoErr => \A n \in 1..count :
                \E i \in At("read", {"ids"}) : log[i].n = n
    /\ \A j \in At("release", {"pszName"}) :
        \E i \in At("read", {"pszName"}) : ResOf(i) = ResOf(j) /\ i < j
    /\ \A j \in At("release", {"path"}) :
        \E i \in At("read", {"path"}) : ResOf(i) = ResOf(j) /\ i < j

\* Two identifiers were read and their names and paths decoded, and the id
\* array, the definitions and the path strings have been released.
C20_Witness ==
    /\ pc = "ret_named_paths"
    /\ Cardinality(At("read", {"ids"})) = 2
    /\ Cardinality({i \in At("read", {"path"}) : log[i].ok}) = 2
    /\ Cardinality(At("release", {"pszName"})) = 2
    /\ At("release", {"ids"}) # {}

====
